---------------------------- MODULE Spec2Model ----------------------------
(***************************************************************************)
(* Model of server/python/calculate_indicators.py: the function            *)
(* calculate_indicators(ohlcv_data) and the script's __main__ block.       *)
(*                                                                         *)
(* Values.  A Python/JSON scalar is a record [t, n, d]:                    *)
(*   t = "float"  a finite number whose value is the rational n/d (d > 0)  *)
(*   t = "finite" a finite float whose value the model does not track      *)
(*                (the outputs of TA-Lib other than SMA)                   *)
(*   t = "nan"    the float NaN                                            *)
(*   t = "None"   Python None / JSON null                                  *)
(*   t = "str"    a string that float() cannot parse                       *)
(* The closes, highs and lows of the modelled inputs are small integers,   *)
(* for which TA-Lib's running sums and numpy's comparisons are exact, so   *)
(* comparing sum/period as rationals agrees with the float comparison.     *)
(*                                                                         *)
(* Libraries.  pandas, numpy and TA-Lib are not part of the repository;    *)
(* their calls are modelled by what the call does at the call site:        *)
(* pandas.DataFrame pads short rows of a ragged list with None and raises  *)
(* ValueError when the widest row does not have 6 fields; numpy's          *)
(* conversion to dtype=float turns None into NaN and raises ValueError on  *)
(* a non-numeric string; a TA-Lib output has the input's length and is NaN *)
(* on its first `lookback` positions.                                      *)
(***************************************************************************)
EXTENDS Integers, Sequences, FiniteSets

VARIABLES
    pc,          \* control position (source line about to run)
    caller,      \* "main": run as a script; "import": called by an importer
    stdin,       \* what the script reads from standard input
    input_data,  \* __main__: the decoded request
    ohlcv_data,  \* the argument of calculate_indicators (the caller's object)
    df,          \* the DataFrame's rows
    close, high, low, volume,   \* the numpy arrays
    cur,         \* the current_* locals (lines 35-67)
    trend, support, resistance,
    exc,         \* the exception being raised: [cls, msg], or NoExc
    result,      \* the value calculate_indicators returned
    stdout,      \* the sequence of objects printed
    exitcode,    \* the process's exit code, -1 while running
    arg0,        \* history: the argument's value when the call began
    memo         \* history: one completed call, [in, out, fresh], or NoMemo;
                 \* fresh until the next call begins

vars == <<pc, caller, stdin, input_data, ohlcv_data, df, close, high, low, volume,
          cur, trend, support, resistance, exc, result, stdout, exitcode,
          arg0, memo>>

-----------------------------------------------------------------------------
(* Bounds of the model *)

\* longest series
MaxLen == 52
\* longest second segment of a two-segment series
MaxTail == 20
\* longest short two-segment series
MaxShortLen == 3
\* longest series that carries a malformed row
MaxBadLen == 2
\* longest short series an importer passes
MaxLibLen == 1

(* Program constants: the periods passed to TA-Lib and the level window *)

RSI_PERIOD == 14
MACD_FAST == 12
MACD_SLOW == 26
MACD_SIGNAL == 9
BB_PERIOD == 20
ATR_PERIOD == 14
STOCH_FASTK == 14
STOCH_SLOWK == 3
STOCH_SLOWD == 3
SMA_SHORT == 20
SMA_LONG == 50
LEVEL_WINDOW == 20
\* columns=['timestamp', 'open', 'high', 'low', 'close', 'volume']
NCOLUMNS == 6

COL_TIMESTAMP == 1
COL_OPEN == 2
COL_HIGH == 3
COL_LOW == 4
COL_CLOSE == 5
COL_VOLUME == 6

-----------------------------------------------------------------------------
(* Scalars *)

Real(a, b) == [t |-> "float", n |-> a, d |-> b]
Num(a) == Real(a, 1)
SomeFloat == [t |-> "finite", n |-> 0, d |-> 1]
NaN == [t |-> "nan", n |-> 0, d |-> 1]
None == [t |-> "None", n |-> 0, d |-> 1]
Str == [t |-> "str", n |-> 0, d |-> 1]

\* a > b and a < b on tracked finite floats (denominators are positive)
Gt(a, b) == a.n * b.d > b.n * a.d
Lt(a, b) == a.n * b.d < b.n * a.d

Min2(a, b) == IF a <= b THEN a ELSE b
Max2(a, b) == IF a >= b THEN a ELSE b


-----------------------------------------------------------------------------
(* pandas.DataFrame(ohlcv_data, columns=[...6 names...]), line 25 *)

\* the request's 'ohlcv' value: a list of rows, null, or a scalar
List(rows) == [t |-> "list", rows |-> rows]
NullData == [t |-> "null", rows |-> <<>>]
ScalarData == [t |-> "scalar", rows |-> <<>>]

\* the widest row of a non-empty list of rows
RowWidth(rows) ==
    CHOOSE w \in {Len(rows[i]) : i \in DOMAIN rows} :
        \A i \in DOMAIN rows : Len(rows[i]) <= w

\* a row shorter than the widest is padded with None
PadRow(row, w) == [j \in 1..w |-> IF j <= Len(row) THEN row[j] ELSE None]

\* ValueError: a scalar is no frame; the widest row must have one field per column
DataFrameRaises(data) ==
    \/ data.t = "scalar"
    \/ /\ data.t = "list"
       /\ data.rows # <<>>
       /\ RowWidth(data.rows) # NCOLUMNS

DataFrame(data) ==
    IF data.t = "list"
    THEN [i \in 1..Len(data.rows) |-> PadRow(data.rows[i], NCOLUMNS)]
    ELSE <<>>

\* a faulty variant: the rows are popped off the caller's list
ArgumentAfterFrame_consumed(data) == [data EXCEPT !.rows = <<>>]
\* what the construction of the frame leaves in the caller's object
ArgumentAfterFrame(data) == data

(* np.array(df[col], dtype=float), lines 28-31 *)

Column(frame, c) == [i \in 1..Len(frame) |-> frame[i][c]]

\* ValueError: could not convert string to float
AsFloatRaises(col) == \E i \in 1..Len(col) : col[i].t = "str"

AsFloat(col) == [i \in 1..Len(col) |-> IF col[i].t = "None" THEN NaN ELSE col[i]]

(* x[-1], np.isnan, float *)

\* IndexError: index -1 is out of bounds for axis 0 with size 0
IndexRaises(arr) == Len(arr) = 0
Last(arr) == arr[Len(arr)]

\* float(x[-1]) if not np.isnan(x[-1]) else None
Current(arr) == IF Last(arr).t = "nan" THEN None ELSE Last(arr)

-----------------------------------------------------------------------------
(* TA-Lib, on arrays of finite values (the modelled inputs put nothing     *)
(* else in the high, low and close columns, but for strings, which raise   *)
(* at the conversion): an output is index-aligned with its input and NaN   *)
(* on the first `lookback` positions; all outputs of one function share    *)
(* the lookback.                                                           *)

\* a faulty variant: a lookback one bar short
RSI_Lookback_short == RSI_PERIOD - 1
RSI_Lookback == RSI_PERIOD
\* a faulty variant: the MACD line without the signal's warm-up
MACD_Lookback_slow == Max2(MACD_FAST, MACD_SLOW) - 1
MACD_Lookback == (Max2(MACD_FAST, MACD_SLOW) - 1) + (MACD_SIGNAL - 1)
BBANDS_Lookback == BB_PERIOD - 1
ATR_Lookback == ATR_PERIOD
STOCH_Lookback == (STOCH_FASTK - 1) + (STOCH_SLOWK - 1) + (STOCH_SLOWD - 1)
MA_Lookback(timeperiod) == timeperiod - 1

TA_Output(len, lookback) == [i \in 1..len |-> IF i <= lookback THEN NaN ELSE SomeFloat]

RECURSIVE SumRange(_, _, _)
SumRange(arr, lo, hi) == IF lo > hi THEN 0 ELSE arr[hi].n + SumRange(arr, lo, hi - 1)

\* talib.SMA: the mean of the trailing timeperiod values
SMA(arr, timeperiod) ==
    [i \in 1..Len(arr) |->
        IF i <= MA_Lookback(timeperiod)
        THEN NaN
        ELSE Real(SumRange(arr, i - timeperiod + 1, i), timeperiod)]

RSI(arr) == TA_Output(Len(arr), RSI_Lookback)
MACD(arr) == TA_Output(Len(arr), MACD_Lookback)
BBANDS_middle(arr) == SMA(arr, BB_PERIOD)
BBANDS_band(arr) == TA_Output(Len(arr), BBANDS_Lookback)
ATR(h, l, c) == TA_Output(Len(c), ATR_Lookback)
STOCH(h, l, c) == TA_Output(Len(c), STOCH_Lookback)
EMA(arr, timeperiod) == TA_Output(Len(arr), MA_Lookback(timeperiod))


-----------------------------------------------------------------------------
(* Lines 33-67: the latest value of every indicator *)

Indicators(c, h, l) ==
    [rsi         |-> Current(RSI(c)),
     macd        |-> Current(MACD(c)),
     macd_signal |-> Current(MACD(c)),
     macd_hist   |-> Current(MACD(c)),
     bb_upper    |-> Current(BBANDS_band(c)),
     bb_middle   |-> Current(BBANDS_middle(c)),
     bb_lower    |-> Current(BBANDS_band(c)),
     atr         |-> Current(ATR(h, l, c)),
     stoch_k     |-> Current(STOCH(h, l, c)),
     stoch_d     |-> Current(STOCH(h, l, c)),
     sma_20      |-> Current(SMA(c, SMA_SHORT)),
     sma_50      |-> Current(SMA(c, SMA_LONG)),
     ema_20      |-> Current(EMA(c, SMA_SHORT)),
     ema_50      |-> Current(EMA(c, SMA_LONG))]

(* Lines 69-77: the trend *)

Label(s) == [t |-> s, n |-> 0, d |-> 1]

\* Python's truth value of None or a float: None and 0.0 are false
Truthy(x) == ~(x.t = "None" \/ (x.t = "float" /\ x.n = 0))

DetectTrend(current_sma_20, current_sma_50, last_close) ==
    IF Truthy(current_sma_20) /\ Truthy(current_sma_50)
    THEN IF Gt(current_sma_20, current_sma_50) /\ Gt(last_close, current_sma_20)
         THEN Label("uptrend")
         ELSE IF Lt(current_sma_20, current_sma_50) /\ Lt(last_close, current_sma_20)
              THEN Label("downtrend")
              ELSE Label("sideways")
    ELSE None

(* Lines 79-83: support and resistance *)

\* a faulty variant: arr[:k], the first k values
Recent_head(arr, k) == SubSeq(arr, 1, Min2(k, Len(arr)))
\* arr[-k:]
Recent(arr, k) == SubSeq(arr, Max2(1, Len(arr) - k + 1), Len(arr))

\* float(np.max(arr)), float(np.min(arr)) of a non-empty array of finite values
NpMax(arr) ==
    Num(CHOOSE m \in {arr[i].n : i \in 1..Len(arr)} : \A i \in 1..Len(arr) : arr[i].n <= m)
NpMin(arr) ==
    Num(CHOOSE m \in {arr[i].n : i \in 1..Len(arr)} : \A i \in 1..Len(arr) : arr[i].n >= m)

Resistance(h) == NpMax(Recent(h, LEVEL_WINDOW))
Support(l) == NpMin(Recent(l, LEVEL_WINDOW))

\* a faulty variant: close[0]
CurrentPrice_first(c) == c[1]
\* line 113: float(close[-1])
CurrentPrice(c) == Last(c)

(* Lines 85-115 and 117-121: the two results *)

SuccessResult(ind, tr, sup, res, price) ==
    [success |-> TRUE,
     indicators |->
        [rsi |-> ind.rsi,
         macd |-> [macd |-> ind.macd, signal |-> ind.macd_signal,
                   histogram |-> ind.macd_hist],
         bollinger_bands |-> [upper |-> ind.bb_upper, middle |-> ind.bb_middle,
                              lower |-> ind.bb_lower],
         atr |-> ind.atr,
         stochastic |-> [k |-> ind.stoch_k, d |-> ind.stoch_d],
         moving_averages |-> [sma_20 |-> ind.sma_20, sma_50 |-> ind.sma_50,
                              ema_20 |-> ind.ema_20, ema_50 |-> ind.ema_50],
         trend |-> tr,
         support |-> sup,
         resistance |-> res,
         current_price |-> price]]

\* a faulty variant: the error result flagged as a success
ErrorResult_flagged(e) == [success |-> TRUE, error |-> e.msg]
ErrorResult(e) == [success |-> FALSE, error |-> e.msg]

(* Exceptions *)

NoExc == [cls |-> "", msg |-> ""]
Raise(cls, msg) == [cls |-> cls, msg |-> msg]

\* the classes an `except C` clause catches
Subclasses(c) ==
    CASE c = "BaseException" ->
            {"BaseException", "SystemExit", "Exception", "ValueError", "IndexError",
             "KeyError", "TypeError", "JSONDecodeError"}
      [] c = "Exception" ->
            {"Exception", "ValueError", "IndexError", "KeyError", "TypeError",
             "JSONDecodeError"}
      [] c = "ValueError" -> {"ValueError", "JSONDecodeError"}
      [] OTHER -> {c}

\* a faulty variant: the handler catches ValueError only
FunctionHandler_narrow == "ValueError"
\* line 117: except Exception as e
FunctionHandler == "Exception"
\* a faulty variant: a bare except, which catches SystemExit too
MainHandler_bare == "BaseException"
\* line 135: except Exception as e
MainHandler == "Exception"

Catches(handler, e) == e.cls \in Subclasses(handler)


-----------------------------------------------------------------------------
(* The inputs *)

Bar(ts, o, h, l, c, v) == <<Num(ts), Num(o), Num(h), Num(l), Num(c), Num(v)>>

\* the bars a segment repeats: [open, high, low, close, volume]
PlainBar == [o |-> 1, h |-> 2, l |-> 0, c |-> 1, v |-> 1]
Shapes ==
    { [o |-> 0, h |-> 0, l |-> 0, c |-> 0, v |-> 0],
      PlainBar,
      [o |-> 2, h |-> 4, l |-> 1, c |-> 3, v |-> 2],
      [o |-> -1, h |-> 5, l |-> -2, c |-> -1, v |-> 1] }

BarOf(i, s) == Bar(i, s.o, s.h, s.l, s.c, s.v)

\* len bars: the last k repeat shape b, the ones before repeat shape a
TwoSegment(len, k, a, b) ==
    [i \in 1..len |-> IF i <= len - k THEN BarOf(i, a) ELSE BarOf(i, b)]

\* len bars with strictly increasing closes
Ramp(len) == [i \in 1..len |-> Bar(i, i - 1, i + 1, i - 2, i, 1)]

SeriesOfLength(lens, tails) ==
    {TwoSegment(p[1], p[2], p[3], p[4]) :
        p \in {q \in lens \X tails \X Shapes \X Shapes : q[2] <= q[1]}}
    \cup {Ramp(len) : len \in lens}

\* one-segment series and ramps of every length; two-segment series of the lengths
\* at which both moving averages are defined, and short ones
WellFormedSeries ==
    SeriesOfLength(0..MaxLen, {0})
    \cup SeriesOfLength(SMA_LONG..MaxLen, 0..MaxTail)
    \cup SeriesOfLength(0..MaxShortLen, 0..1)

\* one field of one row replaced
WithField(rows, r, f, x) ==
    [i \in 1..Len(rows) |-> IF i = r THEN [rows[i] EXCEPT ![f] = x] ELSE rows[i]]
\* one row without its last field, or with one field more
WithShortRow(rows, r) ==
    [i \in 1..Len(rows) |->
        IF i = r THEN SubSeq(rows[i], 1, Len(rows[i]) - 1) ELSE rows[i]]
WithLongRow(rows, r) ==
    [i \in 1..Len(rows) |-> IF i = r THEN Append(rows[i], Num(0)) ELSE rows[i]]
AllShort(rows) == [i \in 1..Len(rows) |-> SubSeq(rows[i], 1, Len(rows[i]) - 1)]

\* the values put in a field that is not a finite number
BadValues(f) ==
    IF f \in {COL_TIMESTAMP, COL_OPEN, COL_VOLUME} THEN {Str, None, NaN} ELSE {Str}

MalformedFrom(base) ==
    UNION { UNION {{WithField(rows, r, f, x) : r \in 1..Len(rows), x \in BadValues(f)} :
                      f \in 1..NCOLUMNS}
            \cup {WithShortRow(rows, r) : r \in 1..Len(rows)}
            \cup {WithLongRow(rows, r) : r \in 1..Len(rows)}
            \cup {AllShort(rows)} : rows \in base }

MalformedSeries ==
    MalformedFrom({TwoSegment(len, 0, s, s) : len \in 1..MaxBadLen, s \in Shapes})

\* every value the 'ohlcv' key is given
OhlcvInputs ==
    {List(rows) : rows \in WellFormedSeries \cup MalformedSeries}
    \cup {NullData, ScalarData}

\* what an importer passes: short series, series of the greatest length, bad ones
LibInputs ==
    {List(rows) : rows \in SeriesOfLength(0..MaxLibLen, 0..1)
                            \cup SeriesOfLength({MaxLen}, 0..1)
                            \cup MalformedFrom({TwoSegment(len, 0, s, s) :
                                    len \in 1..MaxLibLen, s \in {PlainBar}})}
    \cup {NullData, ScalarData}

\* what the script reads: no JSON, a JSON array, an object without 'ohlcv', a request
Garbage == [kind |-> "garbage", ohlcv |-> NullData]
JsonArray == [kind |-> "array", ohlcv |-> NullData]
NoKey == [kind |-> "nokey", ohlcv |-> NullData]
Request(data) == [kind |-> "request", ohlcv |-> data]

StdinInputs == {Garbage, JsonArray, NoKey} \cup {Request(data) : data \in OhlcvInputs}

\* a well-formed series: a list of rows of six finite numbers
WellFormed(data) ==
    /\ data.t = "list"
    /\ \A i \in 1..Len(data.rows) :
          /\ Len(data.rows[i]) = NCOLUMNS
          /\ \A f \in 1..NCOLUMNS : data.rows[i][f].t = "float"

-----------------------------------------------------------------------------
(* The state machine *)

Unbound == [t |-> "unbound", n |-> 0, d |-> 1]
NoResult == [success |-> FALSE]
NoMemo == [in |-> NullData, out |-> NoResult, fresh |-> FALSE]

Fresh ==
    /\ df = Unbound /\ close = Unbound /\ high = Unbound /\ low = Unbound
    /\ volume = Unbound /\ cur = Unbound /\ trend = Unbound
    /\ support = Unbound /\ resistance = Unbound

FreshLocals ==
    /\ df' = Unbound /\ close' = Unbound /\ high' = Unbound /\ low' = Unbound
    /\ volume' = Unbound /\ cur' = Unbound /\ trend' = Unbound
    /\ support' = Unbound /\ resistance' = Unbound

locals == <<df, close, high, low, volume, cur, trend, support, resistance>>
process == <<caller, stdin, input_data, stdout, exitcode>>

Init ==
    /\ pc = "m126"
    /\ caller = "main"
    /\ stdin \in StdinInputs
    /\ input_data = Unbound
    /\ ohlcv_data = NullData
    /\ arg0 = NullData
    /\ Fresh
    /\ exc = NoExc
    /\ result = NoResult
    /\ stdout = <<>>
    /\ exitcode = -1
    /\ memo = NoMemo

InitLib ==
    /\ pc = "idle"
    /\ caller = "import"
    /\ stdin = Garbage
    /\ input_data = Unbound
    /\ ohlcv_data = NullData
    /\ arg0 = NullData
    /\ Fresh
    /\ exc = NoExc
    /\ result = NoResult
    /\ stdout = <<>>
    /\ exitcode = -1
    /\ memo = NoMemo

(* __main__, lines 123-141 *)

\* line 126: input_data = json.loads(sys.stdin.read())
MainRead ==
    /\ pc = "m126"
    /\ IF stdin.kind = "garbage"
       THEN /\ exc' = Raise("JSONDecodeError", "Expecting value")
            /\ pc' = "m135"
            /\ UNCHANGED input_data
       ELSE /\ input_data' = stdin
            /\ pc' = "m129"
            /\ UNCHANGED exc
    /\ UNCHANGED <<caller, stdin, ohlcv_data, locals, result, stdout, exitcode, arg0, memo>>

\* line 129: input_data['ohlcv'], then the call
MainCall ==
    /\ pc = "m129"
    /\ IF input_data.kind = "array"
       THEN /\ exc' = Raise("TypeError", "list indices must be integers or slices, not str")
            /\ pc' = "m135"
            /\ UNCHANGED <<ohlcv_data, arg0>>
       ELSE IF input_data.kind = "nokey"
       THEN /\ exc' = Raise("KeyError", "'ohlcv'")
            /\ pc' = "m135"
            /\ UNCHANGED <<ohlcv_data, arg0>>
       ELSE /\ ohlcv_data' = input_data.ohlcv
            /\ arg0' = input_data.ohlcv
            /\ pc' = "f25"
            /\ UNCHANGED exc
    /\ UNCHANGED <<process, locals, result, memo>>

\* line 132: print(json.dumps(result))
MainPrint ==
    /\ pc = "m132"
    /\ stdout' = Append(stdout, result)
    /\ pc' = "m133"
    /\ UNCHANGED <<caller, stdin, input_data, ohlcv_data, locals, exc, result, exitcode,
                   arg0, memo>>

\* line 133: sys.exit(0) raises SystemExit inside the try block
MainExit ==
    /\ pc = "m133"
    /\ exc' = Raise("SystemExit", "0")
    /\ pc' = "m135"
    /\ UNCHANGED <<process, ohlcv_data, locals, result, arg0, memo>>

\* the exit status of a process ended by an exception nothing caught
ExitStatus(e) == IF e.cls = "SystemExit" /\ e.msg = "0" THEN 0 ELSE 1

\* lines 135-141: the handler prints the error and exits with 1; an exception it does
\* not catch ends the process
MainExcept ==
    /\ pc = "m135"
    /\ IF Catches(MainHandler, exc)
       THEN /\ stdout' = Append(stdout, ErrorResult(exc))
            /\ exitcode' = 1
       ELSE /\ exitcode' = ExitStatus(exc)
            /\ UNCHANGED stdout
    /\ exc' = NoExc
    /\ pc' = "exit"
    /\ UNCHANGED <<caller, stdin, input_data, ohlcv_data, locals, result, arg0, memo>>

(* An importer's call *)

Call ==
    /\ pc = "idle"
    /\ \E data \in LibInputs :
          /\ ohlcv_data' = data
          /\ arg0' = data
    /\ FreshLocals
    /\ result' = NoResult
    /\ memo' = [memo EXCEPT !.fresh = FALSE]
    /\ pc' = "f25"
    /\ UNCHANGED <<process, exc>>

(* calculate_indicators, lines 23-121 *)

\* line 25
BuildFrame ==
    /\ pc = "f25"
    /\ IF DataFrameRaises(ohlcv_data)
       THEN /\ exc' = Raise("ValueError", "6 columns passed")
            /\ pc' = "f117"
            /\ UNCHANGED df
       ELSE /\ df' = DataFrame(ohlcv_data)
            /\ pc' = "f28"
            /\ UNCHANGED exc
    /\ ohlcv_data' = ArgumentAfterFrame(ohlcv_data)
    /\ UNCHANGED <<process, close, high, low, volume, cur, trend, support, resistance,
                   result, arg0, memo>>

\* lines 28-31
ToArrays ==
    /\ pc = "f28"
    /\ IF \E c \in {COL_CLOSE, COL_HIGH, COL_LOW, COL_VOLUME} : AsFloatRaises(Column(df, c))
       THEN /\ exc' = Raise("ValueError", "could not convert string to float")
            /\ pc' = "f117"
            /\ UNCHANGED <<close, high, low, volume>>
       ELSE /\ close' = AsFloat(Column(df, COL_CLOSE))
            /\ high' = AsFloat(Column(df, COL_HIGH))
            /\ low' = AsFloat(Column(df, COL_LOW))
            /\ volume' = AsFloat(Column(df, COL_VOLUME))
            /\ pc' = "f34"
            /\ UNCHANGED exc
    /\ UNCHANGED <<process, ohlcv_data, df, cur, trend, support, resistance, result,
                   arg0, memo>>

\* lines 33-67; of an empty array talib.RSI returns an empty array and rsi[-1]
\* raises IndexError (TA-Lib releases that reject an input without a number raise
\* Exception one line earlier: an Exception either way)
ComputeIndicators ==
    /\ pc = "f34"
    /\ IF IndexRaises(close)
       THEN /\ exc' = Raise("IndexError", "index -1 is out of bounds")
            /\ pc' = "f117"
            /\ UNCHANGED cur
       ELSE /\ cur' = Indicators(close, high, low)
            /\ pc' = "f70"
            /\ UNCHANGED exc
    /\ UNCHANGED <<process, ohlcv_data, df, close, high, low, volume, trend, support,
                   resistance, result, arg0, memo>>

\* lines 69-77
ClassifyTrend ==
    /\ pc = "f70"
    /\ trend' = DetectTrend(cur.sma_20, cur.sma_50, Last(close))
    /\ pc' = "f80"
    /\ UNCHANGED <<process, ohlcv_data, df, close, high, low, volume, cur, support,
                   resistance, exc, result, arg0, memo>>

\* lines 79-83
Levels ==
    /\ pc = "f80"
    /\ resistance' = Resistance(high)
    /\ support' = Support(low)
    /\ pc' = "f85"
    /\ UNCHANGED <<process, ohlcv_data, df, close, high, low, volume, cur, trend,
                   exc, result, arg0, memo>>

\* the function hands res to its caller; the history may keep the call
Returns(res) ==
    /\ result' = res
    /\ pc' = IF caller = "main" THEN "m132" ELSE "idle"
    /\ memo' \in IF caller = "import" /\ memo = NoMemo
                 THEN {NoMemo, [in |-> arg0, out |-> res, fresh |-> TRUE]}
                 ELSE {memo}

\* lines 85-115
ReturnSuccess ==
    /\ pc = "f85"
    /\ Returns(SuccessResult(cur, trend, support, resistance, CurrentPrice(close)))
    /\ UNCHANGED <<process, ohlcv_data, locals, exc, arg0>>

\* lines 117-121: an exception the handler does not catch leaves the function
Except ==
    /\ pc = "f117"
    /\ IF Catches(FunctionHandler, exc)
       THEN /\ Returns(ErrorResult(exc))
            /\ exc' = NoExc
       ELSE /\ pc' = IF caller = "main" THEN "m135" ELSE "escaped"
            /\ UNCHANGED <<exc, result, memo>>
    /\ UNCHANGED <<process, ohlcv_data, locals, arg0>>

Next ==
    \/ MainRead
    \/ MainCall
    \/ BuildFrame
    \/ ToArrays
    \/ ComputeIndicators
    \/ ClassifyTrend
    \/ Levels
    \/ ReturnSuccess
    \/ Except
    \/ MainPrint
    \/ MainExit
    \/ MainExcept

NextLib ==
    \/ Call
    \/ BuildFrame
    \/ ToArrays
    \/ ComputeIndicators
    \/ ClassifyTrend
    \/ Levels
    \/ ReturnSuccess
    \/ Except

\* one run of the script
Spec == Init /\ [][Next]_vars

\* the module imported and the function called any number of times
SpecLib == InitLib /\ [][NextLib]_vars

-----------------------------------------------------------------------------
(* What the properties speak of *)

\* the call has handed a result to its caller
Returned == result # NoResult

InFunction == pc \in {"f25", "f28", "f34", "f70", "f80", "f85", "f117"}

FunctionStep ==
    BuildFrame \/ ToArrays \/ ComputeIndicators \/ ClassifyTrend \/ Levels
    \/ ReturnSuccess \/ Except

\* an exception raised inside calculate_indicators reached the caller
Escaped ==
    \/ pc = "escaped"
    \/ pc = "m135" /\ stdin.kind = "request" /\ exc.cls # "SystemExit"

\* the series the call was given, and its length
Rows == arg0.rows
N == Len(arg0.rows)

\* a row of the wrong arity, or a field that is not a finite number
Malformed(data) ==
    /\ data.t = "list"
    /\ \E i \in 1..Len(data.rows) :
          \/ Len(data.rows[i]) # 6
          \/ \E f \in 1..Len(data.rows[i]) : data.rows[i][f].t # "float"

SnapshotKeys ==
    {"rsi", "macd", "bollinger_bands", "atr", "stochastic", "moving_averages",
     "trend", "support", "resistance", "current_price"}

CompleteSnapshot(ind) ==
    /\ DOMAIN ind = SnapshotKeys
    /\ DOMAIN ind.macd = {"macd", "signal", "histogram"}
    /\ DOMAIN ind.bollinger_bands = {"upper", "middle", "lower"}
    /\ DOMAIN ind.stochastic = {"k", "d"}
    /\ DOMAIN ind.moving_averages = {"sma_20", "sma_50", "ema_20", "ema_50"}

\* the numeric values of a snapshot
SnapshotValues(ind) ==
    {ind.rsi, ind.macd.macd, ind.macd.signal, ind.macd.histogram,
     ind.bollinger_bands.upper, ind.bollinger_bands.middle, ind.bollinger_bands.lower,
     ind.atr, ind.stochastic.k, ind.stochastic.d,
     ind.moving_averages.sma_20, ind.moving_averages.sma_50,
     ind.moving_averages.ema_20, ind.moving_averages.ema_50}

-----------------------------------------------------------------------------
(* The claims *)

\* C1: no exception raised in calculate_indicators reaches its caller, every step of
\* the call can be taken, and the value returned is either success = true with the
\* complete indicators snapshot and no error, or success = false with an error string
\* and no indicators.
C1_ResultShape ==
    /\ ~Escaped
    /\ InFunction => ENABLED FunctionStep
    /\ Returned =>
          \/ /\ result.success
             /\ DOMAIN result = {"success", "indicators"}
             /\ CompleteSnapshot(result.indicators)
          \/ /\ ~result.success
             /\ DOMAIN result = {"success", "error"}
             /\ result.error # ""

C1_Witness ==
    /\ Returned
    /\ ~result.success
    /\ Malformed(arg0)
    /\ N = 2

\* C2 (as claimed): in a successful result the trend is None exactly when sma_20 or
\* sma_50 is None, and otherwise uptrend when s20 > s50 and c > s20, downtrend when
\* s20 < s50 and c < s20, sideways in every other case, averages equal to 0 included.
C2_TrendOfAverages ==
    Returned /\ result.success =>
        LET s20 == result.indicators.moving_averages.sma_20
            s50 == result.indicators.moving_averages.sma_50
            c == result.indicators.current_price
        IN  result.indicators.trend =
                IF s20 = None \/ s50 = None THEN None
                ELSE IF Gt(s20, s50) /\ Gt(c, s20) THEN Label("uptrend")
                ELSE IF Lt(s20, s50) /\ Lt(c, s20) THEN Label("downtrend")
                ELSE Label("sideways")

\* C3: for a well-formed series of N >= 1 bars the result is a success, and in every
\* successful result the resistance is the greatest high and the support the least
\* low of the last min(20, N) bars: no high of that window is above the resistance,
\* no low below the support, and each is the value of a bar of the window.
C3_Levels ==
    /\ Returned /\ WellFormed(arg0) /\ N >= 1 => result.success
    /\ Returned /\ result.success =>
          LET window == (N - Min2(20, N) + 1)..N
              res == result.indicators.resistance
              sup == result.indicators.support
          IN  /\ N >= 1
              /\ res.t = "float" /\ res.d = 1
              /\ sup.t = "float" /\ sup.d = 1
              /\ \A i \in window : Rows[i][COL_HIGH].n <= res.n
              /\ \E i \in window : Rows[i][COL_HIGH].n = res.n
              /\ \A i \in window : Rows[i][COL_LOW].n >= sup.n
              /\ \E i \in window : Rows[i][COL_LOW].n = sup.n

\* more than 20 bars, and a bar older than the last 20 whose high is above the
\* resistance and whose low is below the support
C3_Witness ==
    /\ Returned /\ WellFormed(arg0) /\ N > 20
    /\ result.success
    /\ Rows[1][COL_HIGH].n > result.indicators.resistance.n
    /\ Rows[1][COL_LOW].n < result.indicators.support.n

\* C4: for a well-formed series of N >= 1 bars the result is a success in which no
\* value is NaN and an indicator without enough history is None: sma_20, ema_20 and
\* the Bollinger values when N < 20; sma_50, ema_50 and the trend when N < 50; rsi
\* and atr when N <= 14; the MACD values when N < 26; stochastic k and d when N < 14.
C4_WarmupIsNone ==
    Returned /\ WellFormed(arg0) /\ N >= 1 =>
        /\ result.success
        /\ LET ind == result.indicators
           IN  /\ \A x \in SnapshotValues(ind) : x.t # "nan"
               /\ N < 20 =>
                     /\ ind.moving_averages.sma_20 = None
                     /\ ind.moving_averages.ema_20 = None
                     /\ ind.bollinger_bands.upper = None
                     /\ ind.bollinger_bands.middle = None
                     /\ ind.bollinger_bands.lower = None
               /\ N < 50 =>
                     /\ ind.moving_averages.sma_50 = None
                     /\ ind.moving_averages.ema_50 = None
                     /\ ind.trend = None
               /\ N <= 14 => ind.rsi = None /\ ind.atr = None
               /\ N < 26 =>
                     /\ ind.macd.macd = None
                     /\ ind.macd.signal = None
                     /\ ind.macd.histogram = None
               /\ N < 14 => ind.stochastic.k = None /\ ind.stochastic.d = None

\* 14 bars: rsi and atr are still None
C4_Witness ==
    /\ Returned /\ WellFormed(arg0) /\ N = 14
    /\ result.success
    /\ result.indicators.rsi = None

\* C5 (as claimed): a row of the wrong arity, or with a field that is not a finite
\* number, makes the result success = false.
C5_MalformedRejected ==
    Returned /\ Malformed(arg0) => ~result.success

\* C6: for an input of zero bars no exception reaches the caller and the result is
\* success = false with an error string.
C6_EmptyFails ==
    arg0 = List(<<>>) =>
        /\ ~Escaped
        /\ Returned =>
              /\ ~result.success
              /\ "error" \in DOMAIN result
              /\ result.error # ""

C6_Witness ==
    /\ arg0 = List(<<>>)
    /\ Returned
    /\ ~result.success

C8_CurrentPrice ==
    Returned /\ result.success =>
        result.indicators.current_price = Rows[N][COL_CLOSE]

\* at least 50 bars, the last close unlike the first
C8_Witness ==
    /\ Returned /\ result.success /\ N >= 50
    /\ Rows[N][COL_CLOSE] # Rows[1][COL_CLOSE]
    /\ result.indicators.current_price = Rows[N][COL_CLOSE]

C10_OneResultAndExitCode ==
    /\ Len(stdout) <= 1
    /\ pc # "exit" => ENABLED Next
    /\ pc = "exit" =>
          /\ Len(stdout) = 1
          /\ exitcode = IF stdin.kind = "request" THEN 0 ELSE 1
          /\ stdin.kind = "request" => Returned /\ stdout[1] = result
          /\ exitcode = 1 => ~stdout[1].success

\* exit code 0 with a success = false result printed
C10_Witness ==
    /\ pc = "exit"
    /\ exitcode = 0
    /\ Len(stdout) = 1
    /\ ~stdout[1].success

=============================================================================
